---------------------------- MODULE Spec2Model ----------------------------
(***************************************************************************)
(* A model of androidDCIMfix (src/main.py): the filename classifier        *)
(* (parse_files), the statistics aggregator (Analysis) and the rename/copy *)
(* loop of the main block.                                                 *)
(*                                                                         *)
(* Strings are sequences of one-character strings, so that the regular     *)
(* expression of parse_files and the f-string of RegularFile.filename are  *)
(* computed character by character.  A datetime is a pair <<sec, sub>>:    *)
(* whole seconds after Epoch and the sub-second part; datetimes compare    *)
(* lexicographically, as Python's naive datetimes do.                      *)
(***************************************************************************)
EXTENDS Integers, Sequences, FiniteSets, TLC

VARIABLES
    listing,        \* the directory entries handed to parse_files, in listing order
    gi,             \* parse_files: number of paths consumed from its input
    pulled,         \* perform_analysis: the records pulled from its input so far
    files,          \* the list `files` (records yielded so far / list being copied)
    analysis,       \* the Analysis object
    pc,             \* position of the main block
    pics, vids, other,
    new_filenames,  \* names appended at line 266
    i,              \* 1-based position of the for loop of line 249
    copies,         \* the copyfile calls that succeeded, in order
    summary,        \* the counts of the summary line of line 268, or <<>>
    run,            \* 1 in the first run of the program, 2 in a second one
    firstRun,       \* the copies of the first run, once a second one starts
    steps           \* steps the rename/copy part of the main block has taken

vars == <<listing, gi, pulled, files, analysis, pc, pics, vids, other,
          new_filenames, i, copies, summary, run, firstRun, steps>>

-----------------------------------------------------------------------------
(* Bounds of the model *)

\* longest directory listing handed to the rename/copy loop
MaxFiles == 3
\* longest input of parse_files in SpecParse
MaxPaths == 2
\* longest sequence fed to perform_analysis
MaxFed == 3

-----------------------------------------------------------------------------
(* Characters, numbers and datetimes *)

DigitChars == <<"0", "1", "2", "3", "4", "5", "6", "7", "8", "9">>

DigitChar(d) == DigitChars[d + 1]

\* str(n) for a natural number: the "{n}" of an f-string
RECURSIVE Dec(_)
Dec(n) == IF n < 10 THEN <<DigitChar(n)>>
          ELSE Dec(n \div 10) \o <<DigitChar(n % 10)>>

\* the "{n:02d}" of an f-string
Pad2(n) == IF n < 10 THEN <<"0">> \o Dec(n) ELSE Dec(n)

\* \d of the regular expression, over the characters of the model
IsDigit(c) == \E d \in 0..9 : DigitChars[d + 1] = c

DigitValue(c) == CHOOSE d \in 0..9 : DigitChars[d + 1] = c

\* int(s) for a string of digits
RECURSIVE ParseInt(_)
ParseInt(s) == IF s = <<>> THEN 0
          ELSE ParseInt(SubSeq(s, 1, Len(s) - 1)) * 10 + DigitValue(s[Len(s)])

\* str.upper, over the letters of the model
Upper(s) ==
    [k \in 1..Len(s) |->
        CASE s[k] = "d" -> "D" [] s[k] = "s" -> "S" [] s[k] = "c" -> "C"
          [] s[k] = "m" -> "M" [] s[k] = "o" -> "O" [] s[k] = "v" -> "V"
          [] OTHER -> s[k]]

\* the wall-clock datetime of <<0, 0>>: 2020-01-01 00:00:58
Epoch == [year |-> 2020, month |-> 1, day |-> 1, hour |-> 0, minute |-> 0, second |-> 58]

\* the fields of a datetime (datetime.fromtimestamp of the stat value)
DateTime(t) ==
    LET s == Epoch.second + t[1]
        m == Epoch.minute + (s \div 60)
    IN  [year |-> Epoch.year, month |-> Epoch.month, day |-> Epoch.day,
         hour |-> Epoch.hour + (m \div 60), minute |-> m % 60, second |-> s % 60,
         microsecond |-> t[2]]

\* a < b on datetimes
TimeLess(a, b) == a[1] < b[1] \/ (a[1] = b[1] /\ a[2] < b[2])

\* the datetimes the model draws stat values from
Times == {<<0, 0>>, <<0, 1>>, <<1, 0>>}

-----------------------------------------------------------------------------
(* Paths *)

\* the directory given on the command line, with its separator
DirPrefix == <<"d", "/">>

\* os.path.join(path, f)
JoinPath(name) == DirPrefix \o name

\* os.path.basename: what follows the last "/"
RECURSIVE Basename(_)
Basename(p) ==
    IF \E k \in 1..Len(p) : p[k] = "/"
    THEN Basename(SubSeq(p, 1 + (CHOOSE k \in 1..Len(p) : p[k] = "/"), Len(p)))
    ELSE p

-----------------------------------------------------------------------------
(* File names of the model *)

\* DSC_0001.JPG
NameDsc1 ==
    <<"D", "S", "C", "_", "0", "0", "0", "1", ".", "J", "P", "G">>

\* DSC_0002_7.JPG
NameDsc2 ==
    <<"D", "S", "C", "_", "0", "0", "0", "2", "_", "7", ".", "J", "P", "G">>

\* DSC_0003.mp4
NameDsc3 ==
    <<"D", "S", "C", "_", "0", "0", "0", "3", ".", "m", "p", "4">>

\* DSC_0004_12.JPG
NameDsc4 ==
    <<"D", "S", "C", "_", "0", "0", "0", "4", "_", "1", "2", ".", "J", "P", "G">>

\* MOV_0001.mp4
NameMov1 ==
    <<"M", "O", "V", "_", "0", "0", "0", "1", ".", "m", "p", "4">>

\* MOV_0002_345.JPG
NameMov2 ==
    <<"M", "O", "V", "_", "0", "0", "0", "2", "_", "3", "4", "5", ".", "J", "P", "G">>

\* IMG_20200101_000058.jpg
NameImg ==
    <<"I", "M", "G", "_", "2", "0", "2", "0", "0", "1", "0", "1", "_",
      "0", "0", "0", "0", "5", "8", ".", "j", "p", "g">>

\* a.txt
NameTxt ==
    <<"a", ".", "t", "x", "t">>

\* DSC_0005.JPG followed by a newline
NameDscNl ==
    <<"D", "S", "C", "_", "0", "0", "0", "5", ".", "J", "P", "G", "\n">>

\* dsc_0001.JPG
NameDscLower ==
    <<"d", "s", "c", "_", "0", "0", "0", "1", ".", "J", "P", "G">>

\* DSC_0001.jpg
NameDscJpg ==
    <<"D", "S", "C", "_", "0", "0", "0", "1", ".", "j", "p", "g">>

\* DSC_001.JPG
NameDscShort ==
    <<"D", "S", "C", "_", "0", "0", "1", ".", "J", "P", "G">>

\* DSC_0001_.JPG
NameDscEmptyConv ==
    <<"D", "S", "C", "_", "0", "0", "0", "1", "_", ".", "J", "P", "G">>

\* DSC_0001_1234.JPG
NameDscLongConv ==
    <<"D", "S", "C", "_", "0", "0", "0", "1", "_", "1", "2", "3", "4", ".", "J", "P", "G">>

\* DSC_0001.JPGx
NameDscTail ==
    <<"D", "S", "C", "_", "0", "0", "0", "1", ".", "J", "P", "G", "x">>

\* xDSC_0001.JPG
NameDscLead ==
    <<"x", "D", "S", "C", "_", "0", "0", "0", "1", ".", "J", "P", "G">>

\* DSC_0009_000.JPG
NameDscZeroConv ==
    <<"D", "S", "C", "_", "0", "0", "0", "9", "_", "0", "0", "0", ".", "J", "P", "G">>

\* MOV_0001.mp4 followed by two newlines
NameMovNlNl ==
    <<"M", "O", "V", "_", "0", "0", "0", "1", ".", "m", "p", "4", "\n", "\n">>

\* the names a directory of the rename/copy model may hold
DirNames == {NameDsc1, NameDsc2, NameDsc3, NameMov1, NameImg, NameTxt}

\* the names SpecParse classifies
ParseNames ==
    {NameDsc1, NameDsc2, NameDsc3, NameDsc4, NameMov1, NameMov2, NameImg, NameTxt,
     NameDscNl, NameDscLower, NameDscJpg, NameDscShort, NameDscEmptyConv,
     NameDscLongConv, NameDscTail, NameDscLead, NameDscZeroConv, NameMovNlNl}

-----------------------------------------------------------------------------
(* File records: Mediafile, RegularFile, PictureFile, VideoFile *)

\* a directory entry: its name and the stat snapshot os.stat returns for it
Entry(name, at, mt, ct) == [name |-> name, atime |-> at, mtime |-> mt, ctime |-> ct]

Mediafile(path, st) ==
    [kind |-> "Mediafile", path |-> path, basename |-> Basename(path),
     atime |-> st.atime, mtime |-> st.mtime, ctime |-> st.ctime,
     head |-> <<>>, index |-> 0, convolution |-> 0, extension |-> <<>>]

RegularFile(kind, path, st, head, index, extension, convolution) ==
    [Mediafile(path, st) EXCEPT !.kind = kind, !.head = head, !.index = index,
                                !.convolution = convolution, !.extension = extension]

PictureFile(path, st, index, convolution) ==
    RegularFile("PictureFile", path, st, <<"I", "M", "G">>, index, <<"j", "p", "g">>,
                convolution)

VideoFile(path, st, index, convolution) ==
    RegularFile("VideoFile", path, st, <<"V", "I", "D">>, index, <<"m", "p", "4">>,
                convolution)

\* isinstance(file, RegularFile)
IsRegular(f) == f.kind \in {"PictureFile", "VideoFile"}

last_access(f) == f.atime
last_modification(f) == f.mtime
last_metadata_change(f) == f.ctime

\* the suffix of the generated name: nothing for convolution 0
ConvolutionSuffix(c) == IF c = 0 THEN <<>> ELSE <<"_">> \o Dec(c)

\* the filename property: Mediafile.filename, overridden by RegularFile.filename
filename(f) ==
    IF ~IsRegular(f) THEN f.basename
    ELSE LET d == DateTime(last_modification(f))
         IN  f.head \o <<"_">> \o Dec(d.year) \o Pad2(d.month) \o Pad2(d.day)
                    \o <<"_">> \o Pad2(d.hour) \o Pad2(d.minute) \o Pad2(d.second)
                    \o ConvolutionSuffix(f.convolution) \o <<".">> \o f.extension

-----------------------------------------------------------------------------
(* parse_files *)

NoMatch == [matched |-> FALSE, head |-> <<>>, idx |-> <<>>, conv |-> <<>>, ext |-> <<>>]

\* where "$" may stand: at the end of the string, or before a newline that ends it
DollarEnds(s) ==
    {Len(s)} \cup (IF Len(s) > 0 /\ s[Len(s)] = "\n" THEN {Len(s) - 1} ELSE {})

\* re.match of (DSC|MOV)_(\d{4})(_(\d{1,3}))?\.(JPG|mp4)$ on s
ReMatch(s) ==
    LET Heads == {<<"D", "S", "C">>, <<"M", "O", "V">>}
        Exts  == {<<"J", "P", "G">>, <<"m", "p", "4">>}
        \* the pattern up to "$" matches s[1..e] with a conv group of n digits
        \* (n = 0: the optional group is absent)
        Fits(e, n) ==
            LET dot == IF n = 0 THEN 9 ELSE 10 + n
            IN  /\ e = dot + 3
                /\ e <= Len(s)
                /\ SubSeq(s, 1, 3) \in Heads
                /\ s[4] = "_"
                /\ \A k \in 5..8 : IsDigit(s[k])
                /\ n > 0 => (s[9] = "_" /\ \A k \in 10..(9 + n) : IsDigit(s[k]))
                /\ s[dot] = "."
                /\ SubSeq(s, dot + 1, e) \in Exts
        Hits == {p \in DollarEnds(s) \X (0..3) : Fits(p[1], p[2])}
    IN  IF Hits = {} THEN NoMatch
        ELSE LET p == CHOOSE q \in Hits : TRUE
                 n == p[2]
             IN  [matched |-> TRUE, head |-> SubSeq(s, 1, 3), idx |-> SubSeq(s, 5, 8),
                  conv |-> IF n = 0 THEN <<>> ELSE SubSeq(s, 10, 9 + n),
                  ext |-> SubSeq(s, p[1] - 2, p[1])]

\* one iteration of the loop of parse_files: the records it yields for one path
ParseOne(e) ==
    LET path  == JoinPath(e.name)
        match == ReMatch(Basename(path))
    IN  IF ~match.matched THEN <<Mediafile(path, e)>>
        ELSE LET head        == Upper(match.head)
                 index       == ParseInt(match.idx)
                 convolution == IF match.conv # <<>> THEN ParseInt(match.conv) ELSE 0
             IN  IF head = <<"D", "S", "C">> THEN <<PictureFile(path, e, index, convolution)>>
                 ELSE IF head = <<"M", "O", "V">> THEN <<VideoFile(path, e, index, convolution)>>
                 ELSE <<>>

\* list(parse_files(entries))
RECURSIVE parse_files(_)
parse_files(entries) ==
    IF entries = <<>> THEN <<>>
    ELSE ParseOne(Head(entries)) \o parse_files(Tail(entries))

-----------------------------------------------------------------------------
(* Analysis *)

\* Analysis.__init__; a pointer is the 1-based position of the record in the
\* sequence fed so far, 0 for None
NewAnalysis ==
    [min_atime |-> 0, max_atime |-> 0, min_mtime |-> 0, max_mtime |-> 0,
     min_ctime |-> 0, max_ctime |-> 0, min_convolution |-> 0,
     unusual_filenames |-> <<>>, total |-> 0]

\* the values of one timestamp property over the records fed so far
AccessTimes(fed) == [k \in 1..Len(fed) |-> last_access(fed[k])]
ModificationTimes(fed) == [k \in 1..Len(fed) |-> last_modification(fed[k])]
MetadataChangeTimes(fed) == [k \in 1..Len(fed) |-> last_metadata_change(fed[k])]

\* MinPtr comparing with >= : the last record with the least value wins
MinPtr_LastWins(cur, keys) ==
    IF cur = 0 \/ ~TimeLess(keys[cur], keys[Len(keys)]) THEN Len(keys) ELSE cur

\* "if self.min_X is None or self.min_X.t > file.t: self.min_X = file", where keys
\* are the values of t over the records fed so far and file is the last of them
MinPtr(cur, keys) ==
    IF cur = 0 \/ TimeLess(keys[Len(keys)], keys[cur]) THEN Len(keys) ELSE cur

\* "if self.max_X is None or self.max_X.t < file.t: self.max_X = file"
MaxPtr(cur, keys) ==
    IF cur = 0 \/ TimeLess(keys[cur], keys[Len(keys)]) THEN Len(keys) ELSE cur

\* ConvPtr comparing with > : the least convolution, as the field's name says
ConvPtr_Least(cur, fed) ==
    IF ~IsRegular(fed[Len(fed)]) THEN cur
    ELSE IF cur = 0 \/ fed[cur].convolution > fed[Len(fed)].convolution
         THEN Len(fed) ELSE cur

\* lines 173-175: min_convolution after file = fed[Len(fed)]
ConvPtr(cur, fed) ==
    IF ~IsRegular(fed[Len(fed)]) THEN cur
    ELSE IF cur = 0 \/ fed[cur].convolution < fed[Len(fed)].convolution
         THEN Len(fed) ELSE cur

\* Unusual without the isinstance test: every record is appended
Unusual_Every(list, fed) == Append(list, Len(fed))

\* lines 173, 176-177: unusual_filenames after file = fed[Len(fed)]
Unusual(list, fed) ==
    IF IsRegular(fed[Len(fed)]) THEN list ELSE Append(list, Len(fed))

\* Analysis.analyze(file); fed is the sequence fed so far with file as its last
\* element
analyze(a, fed) ==
    [total             |-> a.total + 1,
     min_atime         |-> MinPtr(a.min_atime, AccessTimes(fed)),
     max_atime         |-> MaxPtr(a.max_atime, AccessTimes(fed)),
     min_mtime         |-> MinPtr(a.min_mtime, ModificationTimes(fed)),
     max_mtime         |-> MaxPtr(a.max_mtime, ModificationTimes(fed)),
     min_ctime         |-> MinPtr(a.min_ctime, MetadataChangeTimes(fed)),
     max_ctime         |-> MaxPtr(a.max_ctime, MetadataChangeTimes(fed)),
     min_convolution   |-> ConvPtr(a.min_convolution, fed),
     unusual_filenames |-> Unusual(a.unusual_filenames, fed)]

-----------------------------------------------------------------------------
(* The rename/copy loop of the main block *)

\* sorted(files, key=lambda f: f.last_modification): a stable sort.  The record at
\* position k moves behind the records with an earlier modification time and the
\* records with the same one that precede it.
SortByMtime(fs) ==
    LET Before(k) == {j \in 1..Len(fs) :
                         \/ TimeLess(last_modification(fs[j]), last_modification(fs[k]))
                         \/ j < k /\ last_modification(fs[j]) = last_modification(fs[k])}
    IN  [p \in 1..Len(fs) |-> fs[CHOOSE k \in 1..Len(fs) : Cardinality(Before(k)) = p - 1]]

\* file.filename in new_filenames
NameTaken(f, names) == \E k \in 1..Len(names) : names[k] = filename(f)

\* BeginRegular without the reset of line 253: the convolution parsed from the
\* source name is kept
BeginRegular_KeepsConvolution(f, n) == [f EXCEPT !.index = n]

\* file.index = n; file.convolution = 0
BeginRegular(f, n) == [f EXCEPT !.index = n, !.convolution = 0]

\* NextConvolution stepping by two
NextConvolution_ByTwo(f) == [f EXCEPT !.convolution = f.convolution + 2]

\* file.convolution += 1
NextConvolution(f) == [f EXCEPT !.convolution = f.convolution + 1]

\* os.path.join(out_path, file.filename)
OutPrefix == <<"o", "/">>

NewPath(f) == OutPrefix \o filename(f)

\* the directories the model lists: distinct names, any listing order
Listings ==
    LET Entries == {Entry(n, t, t, t) : n \in DirNames, t \in Times}
    IN  UNION {{l \in [1..n -> Entries] :
                   \A a, b \in 1..n : a # b => l[a].name # l[b].name} : n \in 0..MaxFiles}

Init ==
    /\ listing \in Listings
    /\ gi = 0
    /\ pulled = <<>>
    /\ files = <<>>
    /\ analysis = NewAnalysis
    /\ pc = "main"
    /\ pics = 0 /\ vids = 0 /\ other = 0
    /\ new_filenames = <<>>
    /\ i = 0
    /\ copies = <<>>
    /\ summary = <<>>
    /\ run = 1
    /\ firstRun = <<>>
    /\ steps = 0

\* lines 229 and 239-248: parse the listing, sort it, reset the counters
StartOut ==
    /\ pc = "main"
    /\ files' = SortByMtime(parse_files(listing))
    /\ gi' = Len(listing)
    /\ pics' = 0 /\ vids' = 0 /\ other' = 0
    /\ new_filenames' = <<>>
    /\ i' = 0
    /\ pc' = "for"
    /\ UNCHANGED <<listing, pulled, analysis, copies, summary, run, firstRun>>
    /\ steps' = steps + 1

\* lines 249-253, 256-259, 262-263: the next record of the for loop, up to its while loop
ForNext ==
    /\ pc = "for"
    /\ i < Len(files)
    /\ i' = i + 1
    /\ LET f == files[i + 1]
       IN  IF f.kind = "PictureFile"
           THEN /\ pics' = pics + 1
                /\ files' = [files EXCEPT ![i + 1] = BeginRegular(f, pics + 1)]
                /\ pc' = "while"
                /\ UNCHANGED <<vids, other>>
           ELSE IF f.kind = "VideoFile"
           THEN /\ vids' = vids + 1
                /\ files' = [files EXCEPT ![i + 1] = BeginRegular(f, vids + 1)]
                /\ pc' = "while"
                /\ UNCHANGED <<pics, other>>
           ELSE /\ other' = other + 1
                /\ pc' = "copy"
                /\ UNCHANGED <<pics, vids, files>>
    /\ UNCHANGED <<listing, gi, pulled, analysis, new_filenames, copies, summary, run, firstRun>>
    /\ steps' = steps + 1

\* lines 254-255 and 260-261: one iteration of the while loop
WhileBody ==
    /\ pc = "while"
    /\ NameTaken(files[i], new_filenames)
    /\ files' = [files EXCEPT ![i] = NextConvolution(files[i])]
    /\ UNCHANGED <<listing, gi, pulled, analysis, pc, pics, vids, other, new_filenames, i,
                   copies, summary, run, firstRun>>
    /\ steps' = steps + 1

\* lines 254 and 260: the while condition is false
WhileExit ==
    /\ pc = "while"
    /\ ~NameTaken(files[i], new_filenames)
    /\ pc' = "copy"
    /\ UNCHANGED <<listing, gi, pulled, files, analysis, pics, vids, other, new_filenames, i,
                   copies, summary, run, firstRun>>
    /\ steps' = steps + 1

\* lines 264-267: copyfile returns
CopyOk ==
    /\ pc = "copy"
    /\ copies' = Append(copies, [src |-> files[i].path, dst |-> NewPath(files[i])])
    /\ new_filenames' = Append(new_filenames, filename(files[i]))
    /\ pc' = "for"
    /\ UNCHANGED <<listing, gi, pulled, files, analysis, pics, vids, other, i, summary, run,
                   firstRun>>
    /\ steps' = steps + 1

\* CopyFail with the name appended before the copy is attempted
CopyFail_AfterAppend ==
    /\ pc = "copy"
    /\ new_filenames' = Append(new_filenames, filename(files[i]))
    /\ pc' = "aborted"
    /\ UNCHANGED <<listing, gi, pulled, files, analysis, pics, vids, other, i, copies,
                   summary, run, firstRun>>
    /\ steps' = steps + 1

\* line 265: copyfile raises; nothing catches it and the program ends
CopyFail ==
    /\ pc = "copy"
    /\ pc' = "aborted"
    /\ UNCHANGED <<listing, gi, pulled, files, analysis, pics, vids, other, new_filenames, i,
                   copies, summary, run, firstRun>>
    /\ steps' = steps + 1

\* line 268: the for loop is exhausted
Summary ==
    /\ pc = "for"
    /\ i = Len(files)
    /\ summary' = <<pics, vids, other>>
    /\ pc' = "done"
    /\ UNCHANGED <<listing, gi, pulled, files, analysis, pics, vids, other, new_filenames, i,
                   copies, run, firstRun>>
    /\ steps' = steps + 1

Next == StartOut \/ ForNext \/ WhileBody \/ WhileExit \/ CopyOk \/ CopyFail \/ Summary

Spec == Init /\ [][Next]_vars

\* the program is run again on the same directory, into an empty destination
Rerun ==
    /\ pc = "done"
    /\ run = 1
    /\ run' = 2
    /\ firstRun' = copies
    /\ files' = <<>>
    /\ gi' = 0
    /\ pics' = 0 /\ vids' = 0 /\ other' = 0
    /\ new_filenames' = <<>>
    /\ i' = 0
    /\ copies' = <<>>
    /\ summary' = <<>>
    /\ pc' = "main"
    /\ UNCHANGED <<listing, pulled, analysis>>
    /\ steps' = 0

NextRerun == Next \/ Rerun

SpecRerun == Init /\ [][NextRerun]_vars

-----------------------------------------------------------------------------
(* parse_files, one record at a time *)

InitParse ==
    /\ listing \in UNION {[1..n -> {Entry(nm, <<0, 0>>, <<0, 0>>, <<0, 0>>) : nm \in ParseNames}]
                             : n \in 0..MaxPaths}
    /\ gi = 0
    /\ pulled = <<>>
    /\ files = <<>>
    /\ analysis = NewAnalysis
    /\ pc = "parsing"
    /\ pics = 0 /\ vids = 0 /\ other = 0
    /\ new_filenames = <<>>
    /\ i = 0
    /\ copies = <<>>
    /\ summary = <<>>
    /\ run = 1
    /\ firstRun = <<>>
    /\ steps = 0

\* lines 116-129: one iteration of the for loop of parse_files
ParseStep ==
    /\ pc = "parsing"
    /\ gi < Len(listing)
    /\ gi' = gi + 1
    /\ files' = files \o ParseOne(listing[gi + 1])
    /\ UNCHANGED <<listing, steps, pulled, analysis, pc, pics, vids, other, new_filenames, i, copies,
                   summary, run, firstRun>>

\* line 116: the input is exhausted
ParseEnd ==
    /\ pc = "parsing"
    /\ gi = Len(listing)
    /\ pc' = "parsed"
    /\ UNCHANGED <<listing, steps, gi, pulled, files, analysis, pics, vids, other, new_filenames, i,
                   copies, summary, run, firstRun>>

NextParse == ParseStep \/ ParseEnd

SpecParse == InitParse /\ [][NextParse]_vars

-----------------------------------------------------------------------------
(* The analyze branch of the main block *)

\* the records perform_analysis is fed: what parse_files yields for a picture
\* without suffix, a video with the suffix 345 and a file outside the grammar,
\* under every stat snapshot of two datetimes
AnalysisRecords ==
    {ParseOne(Entry(n, at, mt, ct))[1] :
        n \in {NameDsc1, NameMov2, NameTxt}, at, mt, ct \in {<<0, 0>>, <<0, 1>>}}

InitAnalysis ==
    /\ listing = <<>>
    /\ gi = 0
    /\ pulled = <<>>
    /\ files = <<>>
    /\ analysis = NewAnalysis
    /\ pc = "analyzing"
    /\ pics = 0 /\ vids = 0 /\ other = 0
    /\ new_filenames = <<>>
    /\ i = 0
    /\ copies = <<>>
    /\ summary = <<>>
    /\ run = 1
    /\ firstRun = <<>>
    /\ steps = 0

\* PerformAnalysisStep yielding the record without calling analyze
PerformAnalysisStep_NoAnalyze ==
    /\ pc = "analyzing"
    /\ Len(pulled) < MaxFed
    /\ \E file \in AnalysisRecords :
          /\ pulled' = Append(pulled, file)
          /\ files' = Append(files, file)
    /\ UNCHANGED <<listing, steps, gi, analysis, pc, pics, vids, other, new_filenames, i,
                   copies, summary, run, firstRun>>

\* lines 155-157, driven by list() at line 233: pull a record, analyze it, yield it
PerformAnalysisStep ==
    /\ pc = "analyzing"
    /\ Len(pulled) < MaxFed
    /\ \E file \in AnalysisRecords :
          /\ pulled' = Append(pulled, file)
          /\ analysis' = analyze(analysis, Append(pulled, file))
          /\ files' = Append(files, file)
    /\ UNCHANGED <<listing, steps, gi, pc, pics, vids, other, new_filenames, i, copies, summary, run,
                   firstRun>>

\* lines 233-234: the input is exhausted and list() returns
Exhausted ==
    /\ pc = "analyzing"
    /\ pc' = "report"
    /\ UNCHANGED <<listing, steps, gi, pulled, files, analysis, pics, vids, other, new_filenames, i,
                   copies, summary, run, firstRun>>

\* lines 235-238: print_time_table reads the six timestamp pointers, line 236 reads
\* min_convolution; reading an attribute of None raises
Report ==
    /\ pc = "report"
    /\ pc' = IF \E p \in {analysis.min_atime, analysis.max_atime, analysis.min_mtime,
                          analysis.max_mtime, analysis.min_ctime, analysis.max_ctime} : p = 0
             THEN "crashed"
             ELSE IF analysis.min_convolution = 0 THEN "crashed" ELSE "reported"
    /\ UNCHANGED <<listing, steps, gi, pulled, files, analysis, pics, vids, other, new_filenames, i,
                   copies, summary, run, firstRun>>

NextAnalysis == PerformAnalysisStep \/ Exhausted \/ Report

SpecAnalysis == InitAnalysis /\ [][NextAnalysis]_vars

-----------------------------------------------------------------------------
(* Claims about the rename/copy loop *)

\* C1: every name appended to new_filenames differs from every name appended
\* earlier in the run, generic files included.
C1_UniqueNames ==
    \A a, b \in 1..Len(new_filenames) : a < b => new_filenames[a] # new_filenames[b]

\* the list being copied holds only Pictures, all modified in the same second
SameSecondPictures ==
    /\ files # <<>>
    /\ \A k \in 1..Len(files) :
          /\ files[k].kind = "PictureFile"
          /\ last_modification(files[k])[1] = last_modification(files[1])[1]

\* C2: N Pictures sharing one modification second get the convolutions 0, 1, ...,
\* N-1 in the order of the sorted list, whatever convolution their source names
\* carried, and their generated names are pairwise distinct.
C2_SameSecondConvolutions ==
    (pc \in {"for", "while", "copy", "done", "aborted"} /\ SameSecondPictures)
        => /\ \A k \in 1..Len(new_filenames) :
                 /\ files[k].convolution = k - 1
                 /\ new_filenames[k] = filename(files[k])
           /\ \A a, b \in 1..Len(new_filenames) :
                 a # b => new_filenames[a] # new_filenames[b]
           /\ (pc = "done" => Len(new_filenames) = Len(files))

C2_Witness ==
    /\ pc = "done"
    /\ SameSecondPictures
    /\ Len(files) = 3
    /\ files[3].convolution = 2
    /\ last_modification(files[1]) # last_modification(files[3])
    /\ \E k \in 1..Len(listing) : listing[k].name = NameDsc2

\* C3: a second run on the same directory, into an empty destination, copies every
\* source to the destination name the first run gave it, and no two sources share
\* a destination name.
C3_SameBijection ==
    (run = 2 /\ pc = "done")
        => /\ copies = firstRun
           /\ \A a, b \in 1..Len(copies) :
                 copies[a].src # copies[b].src => copies[a].dst # copies[b].dst

\* C6: when the copy of the i-th record fails the run stops there: the records
\* before it are copied and named, the failing record's name is not appended, the
\* records after it keep the index and convolution parse_files gave them, nothing
\* more happens and no summary is printed.
C6_FailFast ==
    pc = "aborted"
        => /\ i \in 1..Len(files)
           /\ Len(copies) = i - 1
           /\ Len(new_filenames) = i - 1
           /\ \A k \in 1..(i - 1) :
                 /\ copies[k].src = files[k].path
                 /\ copies[k].dst = OutPrefix \o new_filenames[k]
           /\ \A k \in (i + 1)..Len(files) :
                 files[k] = SortByMtime(parse_files(listing))[k]
           /\ pics + vids + other = i
           /\ summary = <<>>
           /\ ~ENABLED Next

C6_Witness ==
    /\ pc = "aborted"
    /\ i = 2
    /\ Len(files) = 3
    /\ files[2].convolution = 1
    /\ files[3].convolution = 7

\* the while loop has tried the convolutions below the current one and found
\* each of their names taken; once it stops, the current name is free
C9_Smallest ==
    (pc \in {"while", "copy"} /\ IsRegular(files[i]))
        => LET c == files[i].convolution
           IN  /\ \A k \in 0..(c - 1) :
                     NameTaken([files[i] EXCEPT !.convolution = k], new_filenames)
               /\ c <= Len(new_filenames)
               /\ (pc = "copy" => ~NameTaken(files[i], new_filenames))

\* a bound on the steps the run can still take: the records left, each worth one
\* step more than the longest while loop, plus the steps left for the current one
Rank ==
    LET W == Len(listing) + 3
    IN  CASE pc = "main"  -> (Len(listing) + 1) * W + 2
          [] pc = "for"   -> (Len(files) - i) * W + 1
          [] pc = "while" -> (Len(files) - i) * W + 3
                                + (Len(new_filenames) - files[i].convolution)
          [] pc = "copy"  -> (Len(files) - i) * W + 2
          [] OTHER        -> 0

\* C9: the rename/copy loop ends for every listing (the steps taken plus Rank
\* never exceed the Rank of the start, Rank is a natural number, and a run that
\* has entered the loop and not ended can take a step; StartOut has no guard but
\* its position), and the while loop stops at the smallest convolution whose name
\* is free, which never exceeds the number of names assigned before.
C9_Terminates ==
    /\ C9_Smallest
    /\ Rank >= 0
    /\ steps + Rank <= (Len(listing) + 1) * (Len(listing) + 3) + 2
    /\ (pc \notin {"main", "done", "aborted"}
           => ENABLED (ForNext \/ WhileBody \/ WhileExit \/ CopyOk \/ CopyFail \/ Summary))

C9_Witness ==
    /\ pc = "copy"
    /\ IsRegular(files[i])
    /\ files[i].convolution = 2
    /\ Len(new_filenames) = 2

-----------------------------------------------------------------------------
(* Claims about parse_files *)

\* the name has the form {DSC|MOV}_{4 digits}[_{1-3 digits}].{JPG|mp4}
InGrammar(n) ==
    \E c \in 0..3 :
        /\ Len(n) = IF c = 0 THEN 12 ELSE 13 + c
        /\ SubSeq(n, 1, 3) \in {<<"D", "S", "C">>, <<"M", "O", "V">>}
        /\ n[4] = "_"
        /\ \A k \in 5..8 : IsDigit(n[k])
        /\ c > 0 => (n[9] = "_" /\ \A k \in 10..(9 + c) : IsDigit(n[k]))
        /\ n[Len(n) - 3] = "."
        /\ SubSeq(n, Len(n) - 2, Len(n)) \in {<<"J", "P", "G">>, <<"m", "p", "4">>}

\* the suffix of a name of the grammar, 0 when it has none
GrammarConvolution(n) == IF Len(n) = 12 THEN 0 ELSE ParseInt(SubSeq(n, 10, Len(n) - 4))

\* C4: parse_files yields one record per path, in order; a name of the grammar
\* yields a Picture (head DSC) or a Video (head MOV) with the parsed convolution,
\* every other name a generic Mediafile.
C4_Classification ==
    /\ Len(files) = gi
    /\ \A k \in 1..gi :
          LET n == listing[k].name
          IN  /\ files[k].path = JoinPath(n)
              /\ IF InGrammar(n)
                 THEN /\ files[k].kind = IF n[1] = "D" THEN "PictureFile" ELSE "VideoFile"
                      /\ files[k].convolution = GrammarConvolution(n)
                 ELSE files[k].kind = "Mediafile"

-----------------------------------------------------------------------------
(* Claims about Analysis *)

\* ptr points at the first fed record with the least value of keys
FirstLeast(ptr, keys) ==
    /\ ptr \in 1..Len(keys)
    /\ \A k \in 1..Len(keys) : ~TimeLess(keys[k], keys[ptr])
    /\ \A k \in 1..(ptr - 1) : keys[k] # keys[ptr]

\* ptr points at the first fed record with the greatest value of keys
FirstGreatest(ptr, keys) ==
    /\ ptr \in 1..Len(keys)
    /\ \A k \in 1..Len(keys) : ~TimeLess(keys[ptr], keys[k])
    /\ \A k \in 1..(ptr - 1) : keys[k] # keys[ptr]

\* C5: once a record has been fed, each min pointer is the first fed record with
\* the least timestamp of its kind and each max pointer the first with the greatest.
C5_Extremes ==
    pulled # <<>>
        => /\ FirstLeast(analysis.min_atime, AccessTimes(pulled))
           /\ FirstGreatest(analysis.max_atime, AccessTimes(pulled))
           /\ FirstLeast(analysis.min_mtime, ModificationTimes(pulled))
           /\ FirstGreatest(analysis.max_mtime, ModificationTimes(pulled))
           /\ FirstLeast(analysis.min_ctime, MetadataChangeTimes(pulled))
           /\ FirstGreatest(analysis.max_ctime, MetadataChangeTimes(pulled))

C5_Witness ==
    /\ Len(pulled) = 3
    /\ analysis.min_atime = 2
    /\ last_access(pulled[3]) = last_access(pulled[2])
    /\ analysis.max_mtime = 2
    /\ last_modification(pulled[3]) = last_modification(pulled[2])
    /\ analysis.min_ctime = 1
    /\ analysis.max_ctime = 3

\* C7: unusual_filenames holds the generic records fed, each once, in the order
\* they were fed, and no Picture or Video.
C7_Unusual ==
    LET u == analysis.unusual_filenames
    IN  /\ \A k \in 1..Len(u) : u[k] \in 1..Len(pulled) /\ ~IsRegular(pulled[u[k]])
        /\ \A k \in 1..(Len(u) - 1) : u[k] < u[k + 1]
        /\ \A p \in 1..Len(pulled) : ~IsRegular(pulled[p]) => \E k \in 1..Len(u) : u[k] = p

C7_Witness ==
    /\ Len(pulled) = 3
    /\ analysis.unusual_filenames = <<1, 3>>
    /\ IsRegular(pulled[2])

\* C8: perform_analysis yields the records it pulled, unchanged and in order, and
\* total is the number of records pulled, at every point of the consumption and
\* once the input is exhausted.
C8_PassThrough ==
    /\ files = pulled
    /\ analysis.total = Len(pulled)

C8_Witness ==
    /\ pc = "report"
    /\ analysis.total = 3
    /\ files[1] # files[2]

\* the regular records fed so far
RegularFed == {p \in 1..Len(pulled) : IsRegular(pulled[p])}

\* C10: once a record has been fed the six timestamp pointers are set;
\* min_convolution is set exactly when a Picture or Video has been fed, and is
\* then the first of them with the greatest convolution; the report is produced
\* only if a Picture or Video was fed.
C10_Pointers ==
    /\ pulled # <<>>
          => \A p \in {analysis.min_atime, analysis.max_atime, analysis.min_mtime,
                       analysis.max_mtime, analysis.min_ctime, analysis.max_ctime} : p # 0
    /\ analysis.min_convolution # 0 <=> RegularFed # {}
    /\ analysis.min_convolution # 0
          => /\ analysis.min_convolution \in RegularFed
             /\ \A p \in RegularFed :
                   /\ pulled[p].convolution <= pulled[analysis.min_convolution].convolution
                   /\ p < analysis.min_convolution
                         => pulled[p].convolution < pulled[analysis.min_convolution].convolution
    /\ pc = "reported" => RegularFed # {}
    /\ (pc = "crashed" /\ pulled # <<>>) => RegularFed = {}

C10_Witness ==
    /\ pc = "reported"
    /\ Len(pulled) = 3
    /\ analysis.min_convolution = 2
    /\ IsRegular(pulled[1])
    /\ pulled[3].convolution = pulled[2].convolution

=============================================================================
